---- MODULE Spec2Model ----
(***************************************************************************)
(* PDF417 scanning decoder (core/src/pdf417/PDFScanningDecoder.cpp).       *)
(*                                                                         *)
(* The decoder is modelled in three stages, each with its own             *)
(* specification over the same variables:                                  *)
(*   SpecMeta    - ScanningDecoder::Decode's indicator extraction +        *)
(*                 Merge passes (GetBarcodeMetadata, Merge);               *)
(*   SpecCreate  - CreateDecoderResult (AdjustCodewordCount, cell          *)
(*                 classification) followed by the ambiguity loop;         *)
(*   SpecResolve - CreateDecoderResultFromAmbiguousValues with             *)
(*                 DecodeCodewords, CorrectErrors, VerifyCodewordCount.    *)
(* Collaborators that live outside this file (the row indicator's          *)
(* getBarcodeMetadata, the bounding box arithmetic, the Reed-Solomon       *)
(* decoder, the bit stream parser) are nondeterministic choices over       *)
(* their possible results.                                                 *)
(***************************************************************************)
EXTENDS Integers, Sequences, FiniteSets, TLC

VARIABLES
    pc,                      \* position in Decode
    status,                  \* ErrorStatus returned by Decode ("none" while running)
    imageTopLeft,            \* TRUE iff the imageTopLeft corner is given (non-null)
    imageTopRight,           \* TRUE iff the imageTopRight corner is given (non-null)
    passI,                   \* loop variable i of Decode's extraction loop
    boundingBox,             \* Decode's local boundingBox (Y extent; X extent too in the column scan)
    leftRowIndicatorColumn,  \* Nullable<DetectionResultColumn>
    rightRowIndicatorColumn, \* Nullable<DetectionResultColumn>
    detectionResult,         \* DetectionResult: metadata and bounding box
    barcodeMatrix,           \* CreateDecoderResult's barcodeMatrix
    ecLevel,                 \* ecLevel argument of the ambiguity loop
    codewords,               \* the codewords vector (1-based here, 0-based in C++)
    erasures,                \* erasure indexes (0-based values)
    ambiguousIndexes,        \* indexes with several candidate values (0-based values)
    ambiguousIndexValues,    \* their candidate values
    ambiguousIndexCount,     \* the counter c[i] of the ambiguity loop
    tries,                   \* remaining loop budget
    attempts,                \* history: one record per DecodeCodewords call
    call,                    \* history: the latest DecodeCodewords call in detail
    barcodeMetadata,         \* history: Merge's call of GetBarcodeMetadata, its bool and result
    passes,                  \* history: one record per pass of the extraction loop
    sldBefore,               \* history: value() of cell (0,1) on entry to AdjustCodewordCount
    image,                   \* the BitMatrix: a sequence of pixel rows, TRUE for black
    detect,                  \* history: the latest DetectCodeword call in detail
    columns,                 \* detectionResult's columns, 0 .. barcodeColumnCount() + 1
    ltr,                     \* Decode's leftToRight
    barcodeColumnCount,      \* loop variable of Decode's loop over the columns
    currentRow,              \* Decode's imageRow, the loop variable over the image rows
    previousStartColumn,     \* Decode's previousStartColumn
    minCW,                   \* Decode's minCodewordWidth
    maxCW,                   \* Decode's maxCodewordWidth
    rowStep,                 \* history: the latest iteration of the loop over the rows of the column
    indicator,               \* the row indicator column AdjustBoundingBox is given
    adjusted,                \* history: the AdjustBoundingBox call in detail
    request,                 \* what a call of a JNI entry point is given and meets
    locked,                  \* successful AndroidBitmap_lockPixels calls so far
    unlocked,                \* AndroidBitmap_unlockPixels calls so far
    pending,                 \* message of the pending Java RuntimeException, or "none"
    thrown,                  \* what() of the C++ exception in flight, or "none"
    escaped                  \* whether a C++ exception left the entry point

vars == <<pc, status, imageTopLeft, imageTopRight, passI, boundingBox,
          leftRowIndicatorColumn, rightRowIndicatorColumn, detectionResult,
          barcodeMatrix, ecLevel, codewords, erasures, ambiguousIndexes,
          ambiguousIndexValues, ambiguousIndexCount, tries, attempts, call, barcodeMetadata,
          passes, sldBefore, image, detect, columns, ltr,
          barcodeColumnCount, currentRow, previousStartColumn, minCW,
          maxCW, rowStep, indicator, adjusted, request, locked, unlocked, pending,
          thrown, escaped>>

metaVars == <<imageTopLeft, imageTopRight, passI, boundingBox,
              leftRowIndicatorColumn, rightRowIndicatorColumn, barcodeMetadata,
              passes>>

createVars == <<barcodeMatrix, sldBefore>>

resolveVars == <<ecLevel, codewords, erasures, ambiguousIndexes,
                 ambiguousIndexValues, ambiguousIndexCount, tries, attempts,
                 call>>

pixelVars == <<image, detect>>

scanVars == <<columns, ltr, barcodeColumnCount, currentRow,
              previousStartColumn, minCW, maxCW, rowStep>>

adjustVars == <<indicator, adjusted>>

jniVars == <<request, locked, unlocked, pending, thrown, escaped>>

\* the variables of the stages that work on pixels and of the entry points
otherVars == <<pixelVars, scanVars, adjustVars, jniVars>>

(***************************************************************************)
(* Bounds of the model.                                                    *)
(***************************************************************************)
MaxColumns == 2
MaxRows == 3
MaxEC == 1
ImageHeight == 5
MaxAmbiguous == 3
MaxCandidates == 5
MaxLen == 7
CorruptEC == 9
MaxMultiplicity == 2
MaxResults == 1
RowWidth == 9
ScanRows == 3

(***************************************************************************)
(* ErrorStatus                                                             *)
(***************************************************************************)
NoError == "NoError"
NotFound == "NotFound"
FormatError == "FormatError"
ChecksumError == "ChecksumError"
ErrorStatus == {NoError, NotFound, FormatError, ChecksumError}

StatusIsOK(s) == s = NoError

(***************************************************************************)
(* BarcodeMetadata and the row indicator columns.                          *)
(***************************************************************************)
BarcodeMetadata == [columnCount : 1..MaxColumns,
                    errorCorrectionLevel : 0..MaxEC,
                    rowCount : (MaxRows - 1)..MaxRows]

\* a default-constructed BarcodeMetadata
NoMetadata == [columnCount |-> 0, errorCorrectionLevel |-> 0, rowCount |-> 0]

\* A null column.
NullColumn == [present |-> FALSE, yields |-> FALSE, md |-> NoMetadata]

\* A column as GetRowIndicatorColumn returns it: never null; its
\* getBarcodeMetadata either fails or yields the metadata md.
DetectionResultColumn ==
    {[present |-> TRUE, yields |-> FALSE, md |-> NoMetadata]}
    \cup {[present |-> TRUE, yields |-> TRUE, md |-> m] : m \in BarcodeMetadata}

\* column.getBarcodeMetadata(out): the pair (returned bool, out)
ColumnBarcodeMetadata(col) == [ok |-> col.yields, md |-> col.md]

\* GetBarcodeMetadata rejecting as soon as one field differs.
GetBarcodeMetadataAnyDiffer(leftCol, rightCol) ==
    IF ~leftCol.present \/ ~ColumnBarcodeMetadata(leftCol).ok
    THEN IF rightCol.present /\ ColumnBarcodeMetadata(rightCol).ok
         THEN [ok |-> TRUE, md |-> ColumnBarcodeMetadata(rightCol).md]
         ELSE [ok |-> FALSE, md |-> NoMetadata]
    ELSE IF ~rightCol.present \/ ~ColumnBarcodeMetadata(rightCol).ok
    THEN [ok |-> TRUE, md |-> ColumnBarcodeMetadata(leftCol).md]
    ELSE LET l == ColumnBarcodeMetadata(leftCol).md
             r == ColumnBarcodeMetadata(rightCol).md
         IN  IF l.columnCount # r.columnCount
                \/ l.errorCorrectionLevel # r.errorCorrectionLevel
                \/ l.rowCount # r.rowCount
             THEN [ok |-> FALSE, md |-> NoMetadata]
             ELSE [ok |-> TRUE, md |-> l]

\* GetBarcodeMetadata handing out the left metadata also when only the right
\* indicator yields one.
GetBarcodeMetadataPreferLeft(leftCol, rightCol) ==
    IF leftCol.present /\ ColumnBarcodeMetadata(leftCol).ok
    THEN [ok |-> TRUE, md |-> ColumnBarcodeMetadata(leftCol).md]
    ELSE IF rightCol.present /\ ColumnBarcodeMetadata(rightCol).ok
    THEN [ok |-> TRUE, md |-> ColumnBarcodeMetadata(leftCol).md]
    ELSE [ok |-> FALSE, md |-> NoMetadata]

\* GetBarcodeMetadata(left, right, result): the pair (returned bool, result)
GetBarcodeMetadata(leftCol, rightCol) ==
    IF ~leftCol.present \/ ~ColumnBarcodeMetadata(leftCol).ok
    THEN IF rightCol.present /\ ColumnBarcodeMetadata(rightCol).ok
         THEN [ok |-> TRUE, md |-> ColumnBarcodeMetadata(rightCol).md]
         ELSE [ok |-> FALSE, md |-> NoMetadata]
    ELSE IF ~rightCol.present \/ ~ColumnBarcodeMetadata(rightCol).ok
    THEN [ok |-> TRUE, md |-> ColumnBarcodeMetadata(leftCol).md]
    ELSE LET l == ColumnBarcodeMetadata(leftCol).md
             r == ColumnBarcodeMetadata(rightCol).md
         IN  IF l.columnCount # r.columnCount
                /\ l.errorCorrectionLevel # r.errorCorrectionLevel
                /\ l.rowCount # r.rowCount
             THEN [ok |-> FALSE, md |-> NoMetadata]
             ELSE [ok |-> TRUE, md |-> l]

(***************************************************************************)
(* Bounding boxes (Y extent).  AdjustBoundingBox on both sides followed by *)
(* BoundingBox::Merge either fails, or yields no box, or yields a box      *)
(* inside the image.                                                       *)
(***************************************************************************)
NullBox == [null |-> TRUE, minY |-> 0, maxY |-> 0]

Box(lo, hi) == [null |-> FALSE, minY |-> lo, maxY |-> hi]

Boxes == {Box(lo, hi) : lo \in 0..1, hi \in (ImageHeight - 2)..(ImageHeight - 1)}

MergedBoxResults ==
    {[ok |-> FALSE, box |-> NullBox], [ok |-> TRUE, box |-> NullBox]}
    \cup {[ok |-> TRUE, box |-> b] : b \in Boxes}

\* Merge(left, right, result) with the outcome boxes of the bounding box
\* adjustment: the pair (returned bool, result after the call)
Merge(leftCol, rightCol, boxes, result) ==
    IF leftCol.present \/ rightCol.present
    THEN LET bm == GetBarcodeMetadata(leftCol, rightCol)
         IN  IF bm.ok /\ boxes.ok
             THEN [ok |-> TRUE, bm |-> [called |-> TRUE, ok |-> bm.ok, md |-> bm.md],
                   result |-> [metadata |-> bm.md, box |-> boxes.box]]
             ELSE [ok |-> FALSE, bm |-> [called |-> TRUE, ok |-> bm.ok, md |-> bm.md],
                   result |-> result]
    ELSE [ok |-> FALSE, bm |-> [called |-> FALSE, ok |-> FALSE, md |-> NoMetadata],
          result |-> result]

\* a default-constructed DetectionResult
NoDetectionResult == [metadata |-> NoMetadata, box |-> NullBox]

\* The test after the first Merge with only the upper edge compared.
NeedsSecondPassOnlyAbove(i, merged, box) ==
    i = 0 /\ ~merged.null /\ merged.maxY > box.maxY

\* i == 0 && detectionResult.getBoundingBox() != nullptr && (its minY() <
\* boundingBox.minY() || its maxY() > boundingBox.maxY())
NeedsSecondPass(i, merged, box) ==
    i = 0 /\ ~merged.null /\ (merged.minY < box.minY \/ merged.maxY > box.maxY)

\* One iteration of the extraction loop of Decode; left, right: what
\* GetRowIndicatorColumn returns this pass; boxes: the outcome of the
\* bounding box adjustment and merge.
ExtractionPass(left, right, boxes) ==
    LET l == IF imageTopLeft THEN left ELSE leftRowIndicatorColumn
        r == IF imageTopRight THEN right ELSE rightRowIndicatorColumn
        m == Merge(l, r, boxes, detectionResult)
        db == m.result.box
    IN  /\ leftRowIndicatorColumn' = l
        /\ rightRowIndicatorColumn' = r
        /\ barcodeMetadata' = m.bm
        /\ passes' = Append(passes, [box |-> boundingBox, ok |-> m.ok,
                                     merged |-> IF m.ok THEN db ELSE NullBox])
        /\ IF ~m.ok
           THEN /\ pc' = "done"
                /\ status' = NotFound
                /\ detectionResult' = m.result
                /\ UNCHANGED <<passI, boundingBox>>
           ELSE IF NeedsSecondPass(passI, db, boundingBox)
           THEN /\ boundingBox' = db
                /\ passI' = passI + 1
                /\ detectionResult' = m.result
                /\ UNCHANGED <<pc, status>>
           ELSE /\ detectionResult' = [m.result EXCEPT !.box = boundingBox]
                /\ pc' = "scan"
                /\ UNCHANGED <<status, passI, boundingBox>>

Extract ==
    /\ pc = "extract"
    /\ passI < 2
    /\ \E left \in DetectionResultColumn, right \in DetectionResultColumn,
          boxes \in MergedBoxResults :
            ExtractionPass(left, right, boxes)
    /\ UNCHANGED <<imageTopLeft, imageTopRight, createVars, resolveVars, otherVars>>

(***************************************************************************)
(* Error correction and verification of one combination: DecodeCodewords.  *)
(***************************************************************************)
MAX_ERRORS == 3
MAX_EC_CODEWORDS == 512

RECURSIVE Pow2(_)
Pow2(n) == IF n <= 0 THEN 1 ELSE 2 * Pow2(n - 1)

\* 1 << (ecLevel + 1)
NumECCodewords(ecl) == Pow2(ecl + 1)

\* ErrorCorrection::Decode, outside this file: it fails, or succeeds having
\* corrected codewords in place.  Of the corrected vector this file reads
\* codewords[0] only, so a result says what becomes of that element:
\* kept (set = FALSE) or replaced by v.  After a failed call this file
\* reads no element: it patches the ambiguous ones and hands the vector to
\* the next call, whose result is again any of these; a failed call is
\* therefore taken to leave the vector as it was.
RSResults ==
    {[ok |-> FALSE, set |-> FALSE, v |-> 0], [ok |-> TRUE, set |-> FALSE, v |-> 0]}
    \cup {[ok |-> TRUE, set |-> TRUE, v |-> x] : x \in {0, 1, 928}}

RSApply(cw, rs) ==
    IF rs.ok /\ rs.set /\ Len(cw) > 0 THEN [cw EXCEPT ![1] = rs.v] ELSE cw

\* DecodedBitStreamParser::Decode, outside this file: its status.
ParserResults == {NoError, FormatError, NotFound}

\* CorrectErrors without the erasure budget test.
CorrectErrorsNoBudget(cw, era, numECCodewords, rs) ==
    IF numECCodewords < 0 \/ numECCodewords > MAX_EC_CODEWORDS
    THEN [status |-> ChecksumError, codewords |-> cw, rsCalled |-> FALSE]
    ELSE [status |-> IF rs.ok THEN NoError ELSE ChecksumError,
          codewords |-> RSApply(cw, rs), rsCalled |-> TRUE]

\* CorrectErrors with the budget numECCodewords + MAX_ERRORS.
CorrectErrorsLaxBudget(cw, era, numECCodewords, rs) ==
    IF Len(era) > numECCodewords + MAX_ERRORS
       \/ numECCodewords < 0
       \/ numECCodewords > MAX_EC_CODEWORDS
    THEN [status |-> ChecksumError, codewords |-> cw, rsCalled |-> FALSE]
    ELSE [status |-> IF rs.ok THEN NoError ELSE ChecksumError,
          codewords |-> RSApply(cw, rs), rsCalled |-> TRUE]

CorrectErrors(cw, era, numECCodewords, rs) ==
    IF Len(era) > numECCodewords \div 2 + MAX_ERRORS
       \/ numECCodewords < 0
       \/ numECCodewords > MAX_EC_CODEWORDS
    THEN [status |-> ChecksumError, codewords |-> cw, rsCalled |-> FALSE]
    ELSE [status |-> IF rs.ok THEN NoError ELSE ChecksumError,
          codewords |-> RSApply(cw, rs), rsCalled |-> TRUE]

\* VerifyCodewordCount rejecting a Symbol Length Descriptor equal to the size.
VerifyCodewordCountStrict(cw, numECCodewords) ==
    IF Len(cw) < 4
    THEN [status |-> FormatError, codewords |-> cw]
    ELSE IF cw[1] >= Len(cw)
    THEN [status |-> FormatError, codewords |-> cw]
    ELSE IF cw[1] = 0
    THEN IF numECCodewords < Len(cw)
         THEN [status |-> NoError,
               codewords |-> [cw EXCEPT ![1] = Len(cw) - numECCodewords]]
         ELSE [status |-> FormatError, codewords |-> cw]
    ELSE [status |-> NoError, codewords |-> cw]

VerifyCodewordCount(cw, numECCodewords) ==
    IF Len(cw) < 4
    THEN [status |-> FormatError, codewords |-> cw]
    ELSE IF cw[1] > Len(cw)
    THEN [status |-> FormatError, codewords |-> cw]
    ELSE IF cw[1] = 0
    THEN IF numECCodewords < Len(cw)
         THEN [status |-> NoError,
               codewords |-> [cw EXCEPT ![1] = Len(cw) - numECCodewords]]
         ELSE [status |-> FormatError, codewords |-> cw]
    ELSE [status |-> NoError, codewords |-> cw]

\* The record of a DecodeCodewords call: what it was handed, the codewords
\* after CorrectErrors (corrected) and as the call leaves them (verified),
\* and result.setErasures (-1: not set).
NoCall ==
    [made |-> FALSE, handed |-> <<>>, numEC |-> 0, rsCalled |-> FALSE, rsOk |-> FALSE,
     corrected |-> <<>>, verifyCalled |-> FALSE, verifyStatus |-> "none",
     verified |-> <<>>, parserCalled |-> FALSE, resultErasures |-> -1,
     status |-> "none"]

\* DecodeCodewords(codewords, ecLevel, erasures, codec, result) with the
\* results rs of the Reed-Solomon decoder and ps of the parser
DecodeCodewords(cw, ecl, era, rs, ps) ==
    IF Len(cw) = 0
    THEN [NoCall EXCEPT !.made = TRUE, !.status = FormatError]
    ELSE
    LET numECCodewords == NumECCodewords(ecl)
        ce == CorrectErrors(cw, era, numECCodewords, rs)
        vc == VerifyCodewordCount(ce.codewords, numECCodewords)
        base == [NoCall EXCEPT !.made = TRUE, !.handed = cw, !.numEC = numECCodewords,
                               !.rsCalled = ce.rsCalled,
                               !.rsOk = StatusIsOK(ce.status),
                               !.corrected = ce.codewords,
                               !.verified = ce.codewords]
    IN  IF ~StatusIsOK(ce.status)
        THEN [base EXCEPT !.status = ce.status]
        ELSE IF ~StatusIsOK(vc.status)
        THEN [base EXCEPT !.verifyCalled = TRUE, !.verifyStatus = vc.status,
                          !.verified = vc.codewords, !.status = vc.status]
        ELSE [base EXCEPT !.verifyCalled = TRUE, !.verifyStatus = vc.status,
                          !.verified = vc.codewords, !.parserCalled = TRUE,
                          !.resultErasures = IF StatusIsOK(ps) THEN Len(era) ELSE -1,
                          !.status = ps]

(***************************************************************************)
(* The ambiguity loop: CreateDecoderResultFromAmbiguousValues.             *)
(***************************************************************************)
TriesOneMore == 100 + 1

\* int tries = 100
Tries == 100

\* the loop retrying after every failure
ShouldRetryAnyFailure(s) == s # NoError

\* status != ErrorStatus::ChecksumError returns; ChecksumError retries
ShouldRetry(s) == s = ChecksumError

\* codewords[ambiguousIndexes[i]] = ambiguousIndexValues[i][ambiguousIndexCount[i]]
\* for i = 0, 1, ...: the last assignment to an index stands
PatchCodewords(cw, idxs, vals, cnt) ==
    [j \in 1..Len(cw) |->
        LET hits == {i \in 1..Len(idxs) : idxs[i] = j - 1}
        IN  IF hits = {} THEN cw[j]
            ELSE LET i == CHOOSE h \in hits : \A g \in hits : g <= h
                 IN  vals[i][cnt[i] + 1]]

\* the counter advance without the reset of the positions that carry
RECURSIVE NextCombinationNoReset(_, _, _)
NextCombinationNoReset(cnt, vals, i) ==
    IF i > Len(cnt)
    THEN [count |-> cnt, exhausted |-> FALSE]
    ELSE IF cnt[i] < Len(vals[i]) - 1
    THEN [count |-> [cnt EXCEPT ![i] = cnt[i] + 1], exhausted |-> FALSE]
    ELSE IF i = Len(cnt)
    THEN [count |-> cnt, exhausted |-> TRUE]
    ELSE NextCombinationNoReset(cnt, vals, i + 1)

\* The for loop advancing ambiguousIndexCount from position i (1-based):
\* the new counter, and whether the most significant position overflowed.
RECURSIVE NextCombination(_, _, _)
NextCombination(cnt, vals, i) ==
    IF i > Len(cnt)
    THEN [count |-> cnt, exhausted |-> FALSE]
    ELSE IF cnt[i] < Len(vals[i]) - 1
    THEN [count |-> [cnt EXCEPT ![i] = cnt[i] + 1], exhausted |-> FALSE]
    ELSE IF i = Len(cnt)
    THEN [count |-> [cnt EXCEPT ![i] = 0], exhausted |-> TRUE]
    ELSE NextCombination([cnt EXCEPT ![i] = 0], vals, i + 1)

\* One iteration of the while loop, with the results rs, ps of the
\* collaborators.  tries counts the iterations left; when none is left
\* after this one the loop ends and the function returns ChecksumError.
LoopIteration(rs, ps) ==
    LET patched == PatchCodewords(codewords, ambiguousIndexes, ambiguousIndexValues,
                                  ambiguousIndexCount)
        d == DecodeCodewords(patched, ecLevel, erasures, rs, ps)
        adv == NextCombination(ambiguousIndexCount, ambiguousIndexValues, 1)
    IN  /\ call' = d
        /\ attempts' = Append(attempts, [combo |-> ambiguousIndexCount,
                                         status |-> d.status,
                                         rsCalled |-> d.rsCalled])
        /\ codewords' = IF Len(patched) = 0 THEN patched ELSE d.verified
        /\ tries' = tries - 1
        /\ IF ~ShouldRetry(d.status)
           THEN /\ pc' = "done"
                /\ status' = d.status
                /\ UNCHANGED ambiguousIndexCount
           ELSE IF Len(ambiguousIndexCount) = 0
           THEN /\ pc' = "done"
                /\ status' = ChecksumError
                /\ UNCHANGED ambiguousIndexCount
           ELSE /\ ambiguousIndexCount' = adv.count
                /\ IF adv.exhausted \/ tries - 1 <= 0
                   THEN pc' = "done" /\ status' = ChecksumError
                   ELSE UNCHANGED <<pc, status>>

Attempt ==
    /\ pc = "resolve"
    /\ tries > 0
    /\ \E rs \in RSResults, ps \in ParserResults : LoopIteration(rs, ps)
    /\ UNCHANGED <<ecLevel, erasures, ambiguousIndexes, ambiguousIndexValues,
                   detectionResult, metaVars, createVars, otherVars>>

(***************************************************************************)
(* BarcodeValue: a bag of observed values, a function from the values to   *)
(* their multiplicities.                                                   *)
(***************************************************************************)
EmptyBarcodeValue == <<>>

\* BarcodeValue::setValue
SetValue(bv, v) ==
    [x \in (DOMAIN bv) \cup {v} |->
        IF x = v THEN (IF v \in DOMAIN bv THEN bv[v] + 1 ELSE 1) ELSE bv[x]]

RECURSIVE Ascending(_)
Ascending(S) ==
    IF S = {} THEN <<>>
    ELSE LET least == CHOOSE x \in S : \A y \in S : x <= y
         IN  <<least>> \o Ascending(S \ {least})

\* BarcodeValue::value: the values of maximum multiplicity, in increasing order
Value(bv) ==
    Ascending({v \in DOMAIN bv : \A w \in DOMAIN bv : bv[w] <= bv[v]})

(***************************************************************************)
(* CreateDecoderResult: AdjustCodewordCount and the classification of the  *)
(* data cells.  barcodeMatrix maps <<row, column>> to a BarcodeValue.      *)
(***************************************************************************)
MAX_CODEWORDS_IN_BARCODE == 928

\* 2 << barcodeECLevel
GetNumberOfECCodeWords(barcodeECLevel) == 2 * Pow2(barcodeECLevel)

\* AdjustCodewordCount(detectionResult, barcodeMatrix): the returned bool
\* and the matrix after the call
AdjustCodewordCount(dr, matrix) ==
    LET numberOfCodewords == Value(matrix[<<0, 1>>])
        calculatedNumberOfCodewords ==
            dr.metadata.columnCount * dr.metadata.rowCount
              - GetNumberOfECCodeWords(dr.metadata.errorCorrectionLevel)
    IN  IF numberOfCodewords = <<>>
        THEN IF calculatedNumberOfCodewords < 1
                \/ calculatedNumberOfCodewords > MAX_CODEWORDS_IN_BARCODE
             THEN [ok |-> FALSE, matrix |-> matrix]
             ELSE [ok |-> TRUE,
                   matrix |-> [matrix EXCEPT ![<<0, 1>>] =
                                  SetValue(@, calculatedNumberOfCodewords)]]
        ELSE IF numberOfCodewords[1] # calculatedNumberOfCodewords
        THEN [ok |-> TRUE,
              matrix |-> [matrix EXCEPT ![<<0, 1>>] =
                             SetValue(@, calculatedNumberOfCodewords)]]
        ELSE [ok |-> TRUE, matrix |-> matrix]

\* The cell lookup without the offset of the left indicator column.
CellOfIndexNoOffset(matrix, columnCount, codewordIndex) ==
    matrix[<<codewordIndex \div columnCount, codewordIndex % columnCount>>]

\* the data cell of a codeword index: barcodeMatrix[row][column + 1]
CellOfIndex(matrix, columnCount, codewordIndex) ==
    matrix[<<codewordIndex \div columnCount, (codewordIndex % columnCount) + 1>>]

\* The loops of CreateDecoderResult over row and column visit the codeword
\* indexes in increasing order.
Classify(matrix, rowCount, columnCount) ==
    LET indexes == [k \in 1..(rowCount * columnCount) |-> k - 1]
        values(ix) == Value(CellOfIndex(matrix, columnCount, ix))
        IsErasure(ix) == Len(values(ix)) = 0
        IsAmbiguous(ix) == Len(values(ix)) > 1
        amb == SelectSeq(indexes, IsAmbiguous)
    IN  [erasures |-> SelectSeq(indexes, IsErasure),
         codewords |-> [k \in 1..(rowCount * columnCount) |->
                          IF Len(values(k - 1)) = 1 THEN values(k - 1)[1] ELSE 0],
         ambiguousIndexesList |-> amb,
         ambiguousIndexValues |-> [k \in 1..Len(amb) |-> values(amb[k])]]

\* CreateDecoderResult up to its call of
\* CreateDecoderResultFromAmbiguousValues, whose first statements set up
\* the counter and the tries.
CreateDecoderResult ==
    /\ pc = "create"
    /\ LET adj == AdjustCodewordCount(detectionResult, barcodeMatrix)
           cls == Classify(adj.matrix, detectionResult.metadata.rowCount,
                           detectionResult.metadata.columnCount)
       IN  /\ sldBefore' = [entered |-> TRUE, value |-> Value(barcodeMatrix[<<0, 1>>])]
           /\ barcodeMatrix' = adj.matrix
           /\ IF ~adj.ok
              THEN /\ pc' = "done"
                   /\ status' = NotFound
                   /\ UNCHANGED resolveVars
              ELSE /\ pc' = "resolve"
                   /\ UNCHANGED status
                   /\ ecLevel' = detectionResult.metadata.errorCorrectionLevel
                   /\ codewords' = cls.codewords
                   /\ erasures' = cls.erasures
                   /\ ambiguousIndexes' = cls.ambiguousIndexesList
                   /\ ambiguousIndexValues' = cls.ambiguousIndexValues
                   /\ ambiguousIndexCount' = [k \in 1..Len(cls.ambiguousIndexesList) |-> 0]
                   /\ tries' = Tries
                   /\ UNCHANGED <<attempts, call>>
    /\ UNCHANGED <<detectionResult, metaVars, otherVars>>

(***************************************************************************)
(* DetectCodeword.  A pixel row is a sequence of BOOLEAN, its element      *)
(* x + 1 the pixel at column x.  BitMatrix::get lives outside this file;   *)
(* for a column outside the row it returns whatever the addressed memory   *)
(* holds: oob.left for x < 0, oob.right for x >= width.                    *)
(***************************************************************************)
CODEWORD_SKEW_SIZE == 2

BARS_IN_MODULE == 8

\* what image.get may yield left and right of the row
OutOfRangePixels == [left : BOOLEAN, right : BOOLEAN]

Get(img, oob, x, imageRow) ==
    IF x < 0 THEN oob.left
    ELSE IF x >= Len(img[imageRow + 1]) THEN oob.right
    ELSE img[imageRow + 1][x + 1]

Abs(a) == IF a < 0 THEN -a ELSE a

Min(a, b) == IF a < b THEN a ELSE b

Max(a, b) == IF a > b THEN a ELSE b

\* The two rounds of AdjustCodewordStartColumn's for loop; the increment is
\* -1 while leftToRight holds and 1 otherwise, both flip together.  reads
\* collects the columns handed to image.get.
RECURSIVE AdjustLoop(_, _, _, _, _, _, _, _, _, _)
AdjustLoop(img, oob, minColumn, maxColumn, imageRow, codewordStartColumn, leftToRight, correctedStartColumn, i, reads) ==
    IF i >= 2
    THEN [column |-> correctedStartColumn, reads |-> reads]
    ELSE IF (IF leftToRight THEN correctedStartColumn >= minColumn
                            ELSE correctedStartColumn < maxColumn)
    THEN LET seen == reads \cup {correctedStartColumn}
         IN  IF leftToRight = Get(img, oob, correctedStartColumn, imageRow)
             THEN IF Abs(codewordStartColumn - correctedStartColumn) > CODEWORD_SKEW_SIZE
                  THEN [column |-> codewordStartColumn, reads |-> seen]
                  ELSE AdjustLoop(img, oob, minColumn, maxColumn, imageRow,
                                  codewordStartColumn, leftToRight,
                                  correctedStartColumn + (IF leftToRight THEN -1 ELSE 1),
                                  i, seen)
             ELSE AdjustLoop(img, oob, minColumn, maxColumn, imageRow,
                             codewordStartColumn, ~leftToRight,
                             correctedStartColumn, i + 1, seen)
    ELSE AdjustLoop(img, oob, minColumn, maxColumn, imageRow,
                    codewordStartColumn, ~leftToRight, correctedStartColumn,
                    i + 1, reads)

AdjustCodewordStartColumn(img, oob, minColumn, maxColumn, leftToRight, codewordStartColumn, imageRow) ==
    AdjustLoop(img, oob, minColumn, maxColumn, imageRow, codewordStartColumn,
               leftToRight, codewordStartColumn, 0, {})

\* The while loop of GetModuleBitCount and its return statement.  steps
\* counts the iterations of the loop.
RECURSIVE ModuleLoop(_, _, _, _, _, _, _, _, _, _, _, _)
ModuleLoop(img, oob, minColumn, maxColumn, leftToRight, imageRow, imageColumn, moduleNumber, previousPixelValue, moduleBitCount, reads, steps) ==
    IF (IF leftToRight THEN imageColumn < maxColumn ELSE imageColumn >= minColumn)
       /\ moduleNumber < BARS_IN_MODULE
    THEN IF Get(img, oob, imageColumn, imageRow) = previousPixelValue
         THEN ModuleLoop(img, oob, minColumn, maxColumn, leftToRight, imageRow,
                         imageColumn + (IF leftToRight THEN 1 ELSE -1),
                         moduleNumber, previousPixelValue,
                         [moduleBitCount EXCEPT ![moduleNumber + 1] = @ + 1],
                         reads \cup {imageColumn}, steps + 1)
         ELSE ModuleLoop(img, oob, minColumn, maxColumn, leftToRight, imageRow,
                         imageColumn, moduleNumber + 1, ~previousPixelValue,
                         moduleBitCount, reads \cup {imageColumn}, steps + 1)
    ELSE [ok |-> \/ moduleNumber = BARS_IN_MODULE
                 \/ /\ imageColumn = (IF leftToRight THEN maxColumn ELSE minColumn)
                    /\ moduleNumber = BARS_IN_MODULE - 1,
          moduleBitCount |-> moduleBitCount,
          moduleNumber |-> moduleNumber,
          imageColumn |-> imageColumn,
          reads |-> reads,
          steps |-> steps]

GetModuleBitCount(img, oob, minColumn, maxColumn, leftToRight, startColumn, imageRow) ==
    ModuleLoop(img, oob, minColumn, maxColumn, leftToRight, imageRow, startColumn,
               0, leftToRight, [k \in 1..BARS_IN_MODULE |-> 0], {}, 0)

\* The skew test with the lower limit left out.
CheckCodewordSkewUpperOnly(codewordSize, minCodewordWidth, maxCodewordWidth) ==
    codewordSize <= maxCodewordWidth + CODEWORD_SKEW_SIZE

CheckCodewordSkew(codewordSize, minCodewordWidth, maxCodewordWidth) ==
    /\ minCodewordWidth - CODEWORD_SKEW_SIZE <= codewordSize
    /\ codewordSize <= maxCodewordWidth + CODEWORD_SKEW_SIZE

RECURSIVE Accumulate(_)
Accumulate(q) == IF q = <<>> THEN 0 ELSE q[1] + Accumulate(Tail(q))

Reverse(q) == [k \in 1..Len(q) |-> q[Len(q) + 1 - k]]

NoCodeword == [null |-> TRUE, startX |-> 0, endX |-> 0]

\* a DetectCodeword call that was not made
NoDetect ==
    [made |-> FALSE, minColumn |-> 0, maxColumn |-> 0, leftToRight |-> FALSE,
     startColumn |-> 0, imageRow |-> 0, minCodewordWidth |-> 0,
     maxCodewordWidth |-> 0, adjusted |-> 0, reads |-> {}, counted |-> FALSE,
     moduleNumber |-> 0, imageColumn |-> 0, steps |-> 0,
     moduleBitCount |-> <<>>, codewordBitCount |-> 0, codeword |-> NoCodeword]

\* DetectCodeword.  decodes: whether CodewordDecoder::GetDecodedValue and
\* Common::GetCodeword, outside this file, both find a value for the module
\* counts.  Of the Codeword it returns, startX and endX are modelled; the
\* bucket and the value come from the symbol table.  The record keeps what
\* the call was given and what its steps computed.
DetectCodeword(img, oob, minColumn, maxColumn, leftToRight, startColumn, imageRow, minCodewordWidth, maxCodewordWidth, decodes) ==
    LET adj == AdjustCodewordStartColumn(img, oob, minColumn, maxColumn,
                                         leftToRight, startColumn, imageRow)
        bits == GetModuleBitCount(img, oob, minColumn, maxColumn, leftToRight,
                                  adj.column, imageRow)
        codewordBitCount == Accumulate(bits.moduleBitCount)
        endColumn == IF leftToRight THEN adj.column + codewordBitCount ELSE adj.column
        startX == IF leftToRight THEN adj.column ELSE endColumn - codewordBitCount
        base == [made |-> TRUE, minColumn |-> minColumn, maxColumn |-> maxColumn,
                 leftToRight |-> leftToRight, startColumn |-> startColumn,
                 imageRow |-> imageRow, minCodewordWidth |-> minCodewordWidth,
                 maxCodewordWidth |-> maxCodewordWidth, adjusted |-> adj.column,
                 reads |-> adj.reads \cup bits.reads, counted |-> bits.ok,
                 moduleNumber |-> bits.moduleNumber, imageColumn |-> bits.imageColumn,
                 steps |-> bits.steps,
                 moduleBitCount |-> IF leftToRight THEN bits.moduleBitCount
                                    ELSE Reverse(bits.moduleBitCount),
                 codewordBitCount |-> codewordBitCount, codeword |-> NoCodeword]
    IN  IF ~bits.ok THEN base
        ELSE IF ~CheckCodewordSkew(codewordBitCount, minCodewordWidth, maxCodewordWidth)
        THEN base
        ELSE IF ~decodes THEN base
        ELSE [base EXCEPT !.codeword =
                 [null |-> FALSE, startX |-> startX, endX |-> endColumn]]

(***************************************************************************)
(* The columns of codewords.  A DetectionResultColumn is modelled by its   *)
(* sequence of Nullable<Codeword>, one per image row of its bounding box,  *)
(* element imageRow - minY + 1 for the image row; its methods live outside *)
(* this file.                                                              *)
(***************************************************************************)
MAX_NEARBY_DISTANCE == 5

\* Nullable<DetectionResultColumn>: nullptr
NoColumn == [null |-> TRUE, codewords |-> <<>>]

\* DetectionResultColumn(boundingBox, rowIndicator)
EmptyColumn(box) ==
    [null |-> FALSE, codewords |-> [k \in 1..(box.maxY - box.minY + 1) |-> NoCodeword]]

\* DetectionResultColumn::setCodeword
SetCodeword(col, box, row, cw) ==
    [col EXCEPT !.codewords[row - box.minY + 1] = cw]

\* DetectionResultColumn::codeword
CodewordAt(col, box, row) == col.codewords[row - box.minY + 1]

\* DetectionResultColumn::codewordNearby: the codeword of the row, or the
\* nearest one up to MAX_NEARBY_DISTANCE - 1 rows away, the row above first
RECURSIVE NearbyFrom(_, _, _)
NearbyFrom(col, index, i) ==
    IF i >= MAX_NEARBY_DISTANCE THEN NoCodeword
    ELSE IF index - i >= 1 /\ ~col.codewords[index - i].null
    THEN col.codewords[index - i]
    ELSE IF index + i <= Len(col.codewords) /\ ~col.codewords[index + i].null
    THEN col.codewords[index + i]
    ELSE NearbyFrom(col, index, i + 1)

CodewordNearby(col, box, row) ==
    IF ~CodewordAt(col, box, row).null THEN CodewordAt(col, box, row)
    ELSE NearbyFrom(col, row - box.minY + 1, 1)

\* One pass of GetRowIndicatorColumn over the image rows from imageRow on,
\* in steps of increment.  Out of the row image.get yields oob; decodes as
\* for DetectCodeword.
RECURSIVE IndicatorPass(_, _, _, _, _, _, _, _, _, _, _)
IndicatorPass(img, oob, decodes, box, leftToRight, minCodewordWidth, maxCodewordWidth, increment, startColumn, imageRow, column) ==
    IF imageRow <= box.maxY /\ imageRow >= box.minY
    THEN LET d == DetectCodeword(img, oob, 0, Len(img[1]), leftToRight, startColumn,
                                 imageRow, minCodewordWidth, maxCodewordWidth, decodes)
         IN  IF ~d.codeword.null
             THEN IndicatorPass(img, oob, decodes, box, leftToRight, minCodewordWidth,
                                maxCodewordWidth, increment,
                                IF leftToRight THEN d.codeword.startX ELSE d.codeword.endX,
                                imageRow + increment,
                                SetCodeword(column, box, imageRow, d.codeword))
             ELSE IndicatorPass(img, oob, decodes, box, leftToRight, minCodewordWidth,
                                maxCodewordWidth, increment, startColumn,
                                imageRow + increment, column)
    ELSE column

GetRowIndicatorColumn(img, oob, decodes, box, startPoint, leftToRight, minCodewordWidth, maxCodewordWidth) ==
    IndicatorPass(img, oob, decodes, box, leftToRight, minCodewordWidth, maxCodewordWidth,
                  -1, startPoint.x, startPoint.y,
                  IndicatorPass(img, oob, decodes, box, leftToRight, minCodewordWidth,
                                maxCodewordWidth, 1, startPoint.x, startPoint.y,
                                EmptyColumn(box)))

IsValidBarcodeColumn(columnCount, barcodeColumn) ==
    barcodeColumn >= 0 /\ barcodeColumn <= columnCount + 1

\* the first codeword of a column that is there, in the order of allCodewords
RECURSIVE FirstCodeword(_)
FirstCodeword(q) ==
    IF q = <<>> THEN NoCodeword
    ELSE IF ~q[1].null THEN q[1]
    ELSE FirstCodeword(Tail(q))

\* the while loop of GetStartColumn and the return after it
RECURSIVE WalkBack(_, _, _, _, _, _)
WalkBack(cols, box, columnCount, barcodeColumn, leftToRight, skippedColumns) ==
    LET offset == IF leftToRight THEN 1 ELSE -1
    IN  IF IsValidBarcodeColumn(columnCount, barcodeColumn - offset)
        THEN LET previousRowCodeword == FirstCodeword(cols[barcodeColumn - offset].codewords)
             IN  IF ~previousRowCodeword.null
                 THEN (IF leftToRight THEN previousRowCodeword.endX
                                     ELSE previousRowCodeword.startX)
                      + offset * skippedColumns
                          * (previousRowCodeword.endX - previousRowCodeword.startX)
                 ELSE WalkBack(cols, box, columnCount, barcodeColumn - offset,
                               leftToRight, skippedColumns + 1)
        ELSE IF leftToRight THEN box.minX ELSE box.maxX

GetStartColumn(cols, box, columnCount, barcodeColumn, row, leftToRight) ==
    LET offset == IF leftToRight THEN 1 ELSE -1
        valid == IsValidBarcodeColumn(columnCount, barcodeColumn - offset)
        far(cw) == IF leftToRight THEN cw.endX ELSE cw.startX
        near(cw) == IF leftToRight THEN cw.startX ELSE cw.endX
        sameRow == IF valid THEN CodewordAt(cols[barcodeColumn - offset], box, row)
                   ELSE NoCodeword
        nearby == CodewordNearby(cols[barcodeColumn], box, row)
        previousNearby == IF valid
                          THEN CodewordNearby(cols[barcodeColumn - offset], box, row)
                          ELSE nearby
    IN  IF ~sameRow.null THEN far(sameRow)
        ELSE IF ~nearby.null THEN near(nearby)
        ELSE IF ~previousNearby.null THEN far(previousNearby)
        ELSE WalkBack(cols, box, columnCount, barcodeColumn, leftToRight, 0)

(***************************************************************************)
(* The scan of the columns in Decode, after the row indicator columns were *)
(* put into the detection result.  boundingBox here carries the X extent   *)
(* as well.                                                                *)
(***************************************************************************)
NoRowStep ==
    [made |-> FALSE, barcodeColumn |-> 0, imageRow |-> 0, startColumn |-> 0,
     skipped |-> FALSE, previousStartColumn |-> -1, minCodewordWidth |-> 0,
     maxCodewordWidth |-> 0, codewords |-> <<>>]

\* int maxBarcodeColumn = detectionResult.barcodeColumnCount() + 1
MaxBarcodeColumn == detectionResult.metadata.columnCount + 1

BarcodeColumn ==
    IF ltr THEN barcodeColumnCount ELSE MaxBarcodeColumn - barcodeColumnCount

\* The head of the loop over the columns and the statements before the loop
\* over the rows: a column that is there is passed over.
BeginColumn ==
    /\ pc = "scan"
    /\ barcodeColumnCount <= MaxBarcodeColumn
    /\ IF ~columns[BarcodeColumn].null
       THEN /\ barcodeColumnCount' = barcodeColumnCount + 1
            /\ UNCHANGED <<pc, columns, currentRow, previousStartColumn, rowStep, detect>>
       ELSE /\ columns' = [columns EXCEPT ![BarcodeColumn] = EmptyColumn(boundingBox)]
            /\ previousStartColumn' = -1
            /\ currentRow' = boundingBox.minY
            /\ pc' = "row"
            /\ rowStep' = NoRowStep
            /\ detect' = NoDetect
            /\ UNCHANGED barcodeColumnCount
    /\ UNCHANGED <<status, detectionResult, metaVars, createVars, resolveVars, image,
                   ltr, minCW, maxCW, adjustVars, jniVars>>

\* the upper limit of the width taken as max(maxCW, width) + 1
WidenOneMore(w, width) == Max(w, width) + 1

\* maxCW = std::max(maxCW, codeword.value().width())
Widen(w, width) == Max(w, width)

\* the fallback to previousStartColumn taken on every out of bounds row
MaySkipNever(startColumn, previous, maxX) == FALSE

\* startColumn out of bounds and no previousStartColumn: continue
MaySkip(startColumn, previous, maxX) ==
    (startColumn < 0 \/ startColumn > maxX) /\ previous = -1

\* One iteration of the loop over the image rows; after the last row the
\* loop over the columns moves on.
ScanRow ==
    /\ pc = "row"
    /\ currentRow <= boundingBox.maxY
    /\ LET startColumn == GetStartColumn(columns, detectionResult.box,
                                         detectionResult.metadata.columnCount,
                                         BarcodeColumn, currentRow, ltr)
           out == startColumn < 0 \/ startColumn > boundingBox.maxX
           step == [made |-> TRUE, barcodeColumn |-> BarcodeColumn,
                    imageRow |-> currentRow, startColumn |-> startColumn,
                    skipped |-> FALSE, previousStartColumn |-> previousStartColumn,
                    minCodewordWidth |-> minCW,
                    maxCodewordWidth |-> maxCW,
                    codewords |-> columns[BarcodeColumn].codewords]
       IN  IF MaySkip(startColumn, previousStartColumn, boundingBox.maxX)
           THEN /\ rowStep' = [step EXCEPT !.skipped = TRUE]
                /\ detect' = NoDetect
                /\ UNCHANGED <<columns, previousStartColumn, minCW,
                               maxCW>>
           ELSE \E oob \in OutOfRangePixels, decodes \in BOOLEAN :
                  LET used == IF out THEN previousStartColumn ELSE startColumn
                      d == DetectCodeword(image, oob, boundingBox.minX, boundingBox.maxX,
                                          ltr, used, currentRow, minCW,
                                          maxCW, decodes)
                      width == d.codeword.endX - d.codeword.startX
                  IN  /\ rowStep' = step
                      /\ detect' = d
                      /\ IF ~d.codeword.null
                         THEN /\ columns' = [columns EXCEPT ![BarcodeColumn] =
                                               SetCodeword(@, boundingBox, currentRow, d.codeword)]
                              /\ previousStartColumn' = used
                              /\ minCW' = Min(minCW, width)
                              /\ maxCW' = Widen(maxCW, width)
                         ELSE UNCHANGED <<columns, previousStartColumn,
                                          minCW, maxCW>>
    /\ currentRow' = currentRow + 1
    /\ IF currentRow + 1 > boundingBox.maxY
       THEN pc' = "scan" /\ barcodeColumnCount' = barcodeColumnCount + 1
       ELSE UNCHANGED <<pc, barcodeColumnCount>>
    /\ UNCHANGED <<status, detectionResult, metaVars, createVars, resolveVars, image,
                   ltr, adjustVars, jniVars>>

\* the loop over the columns is left; CreateDecoderResult follows
FinishScan ==
    /\ pc = "scan"
    /\ barcodeColumnCount > MaxBarcodeColumn
    /\ pc' = "scanned"
    /\ UNCHANGED <<status, detectionResult, metaVars, createVars, resolveVars, otherVars>>

(***************************************************************************)
(* AdjustBoundingBox.  The row indicator column is given by its codeword   *)
(* cells, each nullptr or a codeword with its row number, and the row      *)
(* count of its metadata.                                                  *)
(***************************************************************************)
\* Nullable<DetectionResultColumn>: nullptr
NoIndicator == [null |-> TRUE, rowCount |-> 0, codewords |-> <<>>]

\* DetectionResultColumn::getRowHeights, when it succeeds: the number of
\* codewords of each barcode row
RowHeights(col) ==
    [i \in 1..col.rowCount |->
        Cardinality({k \in 1..Len(col.codewords) :
                        ~col.codewords[k].null /\ col.codewords[k].rowNumber = i - 1})]

\* GetMax: the largest element, -1 for an empty range
GetMax(q) ==
    IF q = <<>> THEN -1 ELSE CHOOSE x \in {q[k] : k \in 1..Len(q)} :
                                \A k \in 1..Len(q) : q[k] <= x

\* The sum over the row heights in the order given, without the break.
RECURSIVE MissingRowsNoBreak(_, _)
MissingRowsNoBreak(heights, maxRowHeight) ==
    IF heights = <<>> THEN 0
    ELSE (maxRowHeight - heights[1]) + MissingRowsNoBreak(Tail(heights), maxRowHeight)

\* The loop over the row heights in the order given: it adds
\* maxRowHeight - rowHeight and stops after the first rowHeight > 0.
RECURSIVE MissingRows(_, _)
MissingRows(heights, maxRowHeight) ==
    IF heights = <<>> THEN 0
    ELSE IF heights[1] > 0 THEN maxRowHeight - heights[1]
    ELSE (maxRowHeight - heights[1]) + MissingRows(Tail(heights), maxRowHeight)

\* The loop over the codewords from index row in steps of increment:
\* while missing > 0 and codewords[row] is nullptr, missing--.  Reading
\* codewords[row] outside the vector is undefined: outside is set and the
\* loop taken to stop.
RECURSIVE SkipEmpty(_, _, _, _, _)
SkipEmpty(cws, row, increment, missing, reads) ==
    IF missing <= 0 THEN [missing |-> missing, reads |-> reads, outside |-> FALSE]
    ELSE IF row < 0 \/ row >= Len(cws)
    THEN [missing |-> missing, reads |-> reads \cup {row}, outside |-> TRUE]
    ELSE IF cws[row + 1].null
    THEN SkipEmpty(cws, row + increment, increment, missing - 1, reads \cup {row})
    ELSE [missing |-> missing, reads |-> reads \cup {row}, outside |-> FALSE]

\* an AdjustBoundingBox call that was not made
NoAdjust ==
    [made |-> FALSE, ok |-> FALSE, boxNull |-> TRUE, addCalled |-> FALSE,
     rowHeights |-> <<>>, missingStartRows |-> 0, missingEndRows |-> 0,
     reads |-> {}, outside |-> FALSE]

\* AdjustBoundingBox.  heightsOk: whether getRowHeights succeeds; addOk:
\* whether BoundingBox::AddMissingRows does.  The record keeps the
\* returned bool, whether the result is nullptr, and what AddMissingRows
\* was handed.
AdjustBoundingBox(rowIndicatorColumn, heightsOk, addOk) ==
    IF rowIndicatorColumn.null \/ ~heightsOk
    THEN [NoAdjust EXCEPT !.made = TRUE, !.ok = TRUE]
    ELSE LET rowHeights == RowHeights(rowIndicatorColumn)
             maxRowHeight == GetMax(rowHeights)
             cws == rowIndicatorColumn.codewords
             top == SkipEmpty(cws, 0, 1, MissingRows(rowHeights, maxRowHeight), {})
             bottom == SkipEmpty(cws, Len(cws) - 1, -1,
                                 MissingRows(Reverse(rowHeights), maxRowHeight), {})
         IN  [made |-> TRUE, ok |-> addOk, boxNull |-> ~addOk, addCalled |-> TRUE,
              rowHeights |-> rowHeights,
              missingStartRows |-> top.missing, missingEndRows |-> bottom.missing,
              reads |-> top.reads \cup bottom.reads,
              outside |-> top.outside \/ bottom.outside]

AdjustBox ==
    /\ pc = "adjust"
    /\ \E heightsOk \in BOOLEAN, addOk \in BOOLEAN :
          adjusted' = AdjustBoundingBox(indicator, heightsOk, addOk)
    /\ pc' = "adjusted"
    /\ UNCHANGED <<status, detectionResult, metaVars, createVars, resolveVars, pixelVars,
                   scanVars, indicator, jniVars>>

(***************************************************************************)
(* The JNI entry points readYBuffer and readBitmap.  A call is followed    *)
(* from the entry to the return, or to the point where a C++ exception     *)
(* leaves the entry point.                                                 *)
(***************************************************************************)
\* no call
NoRequest ==
    [entry |-> "none", format |-> "none", lockOk |-> FALSE, binarizer |-> "none",
     textMode |-> "none", eanAddOnSymbol |-> "none", readThrows |-> "none",
     results |-> <<>>]

\* BinarizerFromString: the message of the exception it throws, "none" when
\* it returns
BinarizerFromString(name) ==
    IF name \in {"LOCAL_AVERAGE", "GLOBAL_HISTOGRAM", "FIXED_THRESHOLD", "BOOL_CAST"}
    THEN "none" ELSE "Invalid binarizer name"

\* TextModeFromString, likewise
TextModeFromString(name) ==
    IF name \in {"PLAIN", "ECI", "HRI", "HEX", "ESCAPED"}
    THEN "none" ELSE "Invalid textMode name"

\* EanAddOnSymbolFromString, likewise
EanAddOnSymbolFromString(name) ==
    IF name \in {"IGNORE", "READ", "REQUIRE"}
    THEN "none" ELSE "Invalid eanAddOnSymbol name"

\* JavaBarcodeFormatName, JavaContentTypeName, JavaErrorTypeName: the enum
\* values are given as known or not, the default branch throws
JavaBarcodeFormatName(known) == IF known THEN "none" ELSE "Invalid format"

JavaContentTypeName(known) == IF known THEN "none" ELSE "Invalid contentType"

JavaErrorTypeName(known) == IF known THEN "none" ELSE "Invalid errorType"

\* CreateResult: the messages of the exceptions its argument expressions
\* can throw; CreateError is evaluated only for a result with an error
CreateResult(result) ==
    {JavaBarcodeFormatName(result.format), JavaContentTypeName(result.contentType),
     IF result.error = "none" THEN "none"
     ELSE JavaErrorTypeName(result.error = "known")} \ {"none"}

\* CreateDecodeHints: the messages of the exceptions its argument
\* expressions can throw
CreateDecodeHintsThrows(hints) ==
    {BinarizerFromString(hints.binarizer),
     EanAddOnSymbolFromString(hints.eanAddOnSymbol),
     TextModeFromString(hints.textMode)} \ {"none"}

\* Java_com_zxingcpp_ZXingCpp_readYBuffer up to the evaluation of the
\* arguments of Read
ReadYBuffer ==
    /\ pc = "jni"
    /\ request.entry = "readYBuffer"
    /\ pc' = "hints"
    /\ UNCHANGED <<status, detectionResult, metaVars, createVars, resolveVars, pixelVars,
                   scanVars, adjustVars, request, locked, unlocked, pending, thrown,
                   escaped>>

\* Java_com_zxingcpp_ZXingCpp_readBitmap up to the evaluation of the
\* arguments of Read: the format switch, the LockedPixels constructor and
\* the test of pixels
ReadBitmap ==
    /\ pc = "jni"
    /\ request.entry = "readBitmap"
    /\ IF request.format \notin {"A_8", "RGBA_8888"}
       THEN /\ pending' = "Unsupported format"
            /\ pc' = "returned"
            /\ UNCHANGED locked
       ELSE IF request.lockOk
       THEN /\ locked' = locked + 1
            /\ pc' = "hints"
            /\ UNCHANGED pending
       ELSE /\ pending' = "Failed to lock/Read AndroidBitmap data"
            /\ pc' = "return"
            /\ UNCHANGED locked
    /\ UNCHANGED <<status, detectionResult, metaVars, createVars, resolveVars, pixelVars,
                   scanVars, adjustVars, request, unlocked, thrown, escaped>>

\* CreateDecodeHints(env, hints), evaluated as an argument of the call of
\* Read in the entry point: it returns, or one of its conversions throws
CreateDecodeHints ==
    /\ pc = "hints"
    /\ IF CreateDecodeHintsThrows(request) = {}
       THEN /\ pc' = "read"
            /\ UNCHANGED thrown
       ELSE /\ \E what \in CreateDecodeHintsThrows(request) : thrown' = what
            /\ pc' = "unwind"
    /\ UNCHANGED <<status, detectionResult, metaVars, createVars, resolveVars, pixelVars,
                   scanVars, adjustVars, request, locked, unlocked, pending, escaped>>

\* the handlers of Read: a std::exception becomes a RuntimeException with
\* its what(), any other exception one with "Unknown exception"
ReadCatch(what) ==
    [pending |-> IF what = "not a std::exception" THEN "Unknown exception" ELSE what,
     thrown |-> "none"]

\* Read: ReadBarcodes and CreateResult inside the try block
Read ==
    /\ pc = "read"
    /\ LET throws == IF request.readThrows # "none" THEN {request.readThrows}
                     ELSE UNION {CreateResult(request.results[k]) :
                                    k \in 1..Len(request.results)}
       IN  IF throws = {}
           THEN /\ pc' = "return"
                /\ UNCHANGED <<pending, thrown>>
           ELSE \E what \in throws :
                   LET caught == ReadCatch(what)
                   IN  /\ pending' = caught.pending
                       /\ thrown' = caught.thrown
                       /\ pc' = IF caught.thrown = "none" THEN "return" ELSE "unwind"
    /\ UNCHANGED <<status, detectionResult, metaVars, createVars, resolveVars, pixelVars,
                   scanVars, adjustVars, request, locked, unlocked, escaped>>

\* ~LockedPixels: unlocks when pixels is set
DestroyLockedPixels == IF locked > unlocked THEN unlocked + 1 ELSE unlocked

\* the return statement of the entry point after Read or after the failed
\* lock: the locals are destroyed
Return ==
    /\ pc = "return"
    /\ unlocked' = DestroyLockedPixels
    /\ pc' = "returned"
    /\ UNCHANGED <<status, detectionResult, metaVars, createVars, resolveVars, pixelVars,
                   scanVars, adjustVars, request, locked, pending, thrown, escaped>>

\* An exception in flight in the entry point, which has no handler: it
\* leaves the entry point.  Whether the stack is unwound, and so whether
\* ~LockedPixels runs, when no handler is found is implementation-defined.
Escape ==
    /\ pc = "unwind"
    /\ escaped' = TRUE
    /\ unlocked' \in {unlocked, DestroyLockedPixels}
    /\ pc' = "escaped"
    /\ UNCHANGED <<status, detectionResult, metaVars, createVars, resolveVars, pixelVars,
                   scanVars, adjustVars, request, locked, pending, thrown>>

(***************************************************************************)
(* Values of the variables a stage does not use.                           *)
(***************************************************************************)
MetaIdle ==
    /\ imageTopLeft = FALSE
    /\ imageTopRight = FALSE
    /\ passI = 0
    /\ boundingBox = NullBox
    /\ leftRowIndicatorColumn = NullColumn
    /\ rightRowIndicatorColumn = NullColumn
    /\ barcodeMetadata = [called |-> FALSE, ok |-> FALSE, md |-> NoMetadata]
    /\ passes = <<>>

CreateIdle ==
    /\ barcodeMatrix = <<>>
    /\ sldBefore = [entered |-> FALSE, value |-> <<>>]

PixelIdle ==
    /\ image = <<>>
    /\ detect = NoDetect

ScanIdle ==
    /\ columns = <<>>
    /\ ltr = FALSE
    /\ barcodeColumnCount = 0
    /\ currentRow = 0
    /\ previousStartColumn = -1
    /\ minCW = 0
    /\ maxCW = 0
    /\ rowStep = NoRowStep

AdjustIdle ==
    /\ indicator = NoIndicator
    /\ adjusted = NoAdjust

JniIdle ==
    /\ request = NoRequest
    /\ locked = 0
    /\ unlocked = 0
    /\ pending = "none"
    /\ thrown = "none"
    /\ escaped = FALSE

OtherIdle == PixelIdle /\ ScanIdle /\ AdjustIdle /\ JniIdle

ResolveIdle ==
    /\ ecLevel = 0
    /\ codewords = <<>>
    /\ erasures = <<>>
    /\ ambiguousIndexes = <<>>
    /\ ambiguousIndexValues = <<>>
    /\ ambiguousIndexCount = <<>>
    /\ tries = 0
    /\ attempts = <<>>
    /\ call = NoCall

(***************************************************************************)
(* SpecMeta: Decode from the point where BoundingBox::Create succeeded     *)
(* (at least one of the top corners is given) up to the end of the         *)
(* extraction loop.                                                        *)
(***************************************************************************)
InitMeta ==
    /\ pc = "extract"
    /\ status = "none"
    /\ imageTopLeft \in BOOLEAN
    /\ imageTopRight \in BOOLEAN
    /\ imageTopLeft \/ imageTopRight
    /\ passI = 0
    /\ boundingBox \in Boxes
    /\ leftRowIndicatorColumn = NullColumn
    /\ rightRowIndicatorColumn = NullColumn
    /\ barcodeMetadata = [called |-> FALSE, ok |-> FALSE, md |-> NoMetadata]
    /\ passes = <<>>
    /\ detectionResult = NoDetectionResult
    /\ CreateIdle
    /\ ResolveIdle
    /\ OtherIdle

NextMeta == Extract

SpecMeta == InitMeta /\ [][NextMeta]_vars

Yields(col) == col.present /\ col.yields

\* the number of fields on which two metadata differ
DifferingFields(l, r) ==
    (IF l.columnCount # r.columnCount THEN 1 ELSE 0)
    + (IF l.errorCorrectionLevel # r.errorCorrectionLevel THEN 1 ELSE 0)
    + (IF l.rowCount # r.rowCount THEN 1 ELSE 0)

\* C1: when both indicator columns yield metadata, GetBarcodeMetadata fails
\* exactly when columnCount, ecLevel and rowCount all three differ; in every
\* other case it succeeds with the left metadata; and Decode returns
\* NotFound when all three differ.
C1_MetadataWeakAgreement ==
    (barcodeMetadata.called /\ Yields(leftRowIndicatorColumn)
        /\ Yields(rightRowIndicatorColumn)) =>
        LET l == leftRowIndicatorColumn.md
            r == rightRowIndicatorColumn.md
        IN  /\ barcodeMetadata.ok <=> DifferingFields(l, r) < 3
            /\ DifferingFields(l, r) < 3 => barcodeMetadata.md = l
            /\ DifferingFields(l, r) = 3 => (pc = "done" /\ status = NotFound)

\* C1 witness: left and right differ on two fields, the call succeeded with
\* the left metadata and Decode went on.
C1_Witness ==
    /\ barcodeMetadata.called
    /\ Yields(leftRowIndicatorColumn) /\ Yields(rightRowIndicatorColumn)
    /\ DifferingFields(leftRowIndicatorColumn.md, rightRowIndicatorColumn.md) = 2
    /\ barcodeMetadata.ok
    /\ detectionResult.metadata = leftRowIndicatorColumn.md
    /\ pc = "scan"

\* C2: when exactly one indicator column yields metadata GetBarcodeMetadata
\* succeeds with that column's metadata unchanged; when neither yields it
\* fails.
C2_SingleIndicator ==
    barcodeMetadata.called =>
        /\ (Yields(leftRowIndicatorColumn) /\ ~Yields(rightRowIndicatorColumn)) =>
              (barcodeMetadata.ok /\ barcodeMetadata.md = leftRowIndicatorColumn.md)
        /\ (~Yields(leftRowIndicatorColumn) /\ Yields(rightRowIndicatorColumn)) =>
              (barcodeMetadata.ok /\ barcodeMetadata.md = rightRowIndicatorColumn.md)
        /\ (~Yields(leftRowIndicatorColumn) /\ ~Yields(rightRowIndicatorColumn)) =>
              (~barcodeMetadata.ok /\ pc = "done" /\ status = NotFound)

\* C2 witness: the left column is there but yields nothing, the right one
\* yields metadata, which Decode goes on with.
C2_Witness ==
    /\ barcodeMetadata.called
    /\ leftRowIndicatorColumn.present /\ ~leftRowIndicatorColumn.yields
    /\ Yields(rightRowIndicatorColumn)
    /\ barcodeMetadata.ok
    /\ detectionResult.metadata = rightRowIndicatorColumn.md
    /\ pc = "scan"

\* the merged box of a pass reaches above or below the box the pass used
Exceeds(p) ==
    /\ p.ok /\ ~p.merged.null
    /\ (p.merged.minY < p.box.minY \/ p.merged.maxY > p.box.maxY)

\* C12: the extraction loop runs at most two passes; there is a second pass
\* exactly when the first Merge succeeded and its merged box has minY below
\* or maxY above the initial box, and that pass uses the merged box;
\* otherwise the first pass is committed; a second pass whose Merge
\* succeeds always commits; the committed box, which the data columns are
\* scanned with, is the box of the last pass; a failed Merge on either pass
\* ends Decode with NotFound without reaching the column scan.
C12_AtMostTwoPasses ==
    /\ Len(passes) <= 2
    /\ Len(passes) = 0 => pc = "extract"
    /\ Len(passes) >= 1 =>
          LET first == passes[1]
              last == passes[Len(passes)]
          IN  /\ (Len(passes) = 2 \/ pc = "extract") <=> Exceeds(first)
              /\ (Len(passes) = 1 /\ pc = "extract") =>
                    /\ boundingBox = first.merged
                    /\ ENABLED Extract
              /\ Len(passes) = 2 =>
                    /\ passes[2].box = first.merged
                    /\ pc # "extract"
              /\ (last.ok /\ pc # "extract") =>
                    /\ pc = "scan"
                    /\ status = "none"
                    /\ boundingBox = last.box
                    /\ detectionResult.box = last.box
              /\ ~last.ok => pc = "done" /\ status = NotFound
              /\ pc = "scan" => last.ok

\* C12 witness: the first merged box reached past the initial maxY only,
\* the second pass used it, its Merge gave a box that again reaches further,
\* and Decode committed the second pass's box all the same.
C12_Witness ==
    /\ Len(passes) = 2
    /\ passes[1].merged.maxY > passes[1].box.maxY
    /\ passes[1].merged.minY = passes[1].box.minY
    /\ Exceeds(passes[2])
    /\ pc = "scan"
    /\ detectionResult.box = passes[2].box

(***************************************************************************)
(* SpecResolve: CreateDecoderResultFromAmbiguousValues on the arguments    *)
(* CreateDecoderResult builds: a vector of n codewords whose element 0 is  *)
(* the Symbol Length Descriptor, ambiguous cells with at least two         *)
(* candidates each at increasing indexes, erasures at other indexes.       *)
(***************************************************************************)
RECURSIVE SeqsUpTo(_, _)
SeqsUpTo(S, n) ==
    IF n = 0 THEN {<<>>}
    ELSE LET shorter == SeqsUpTo(S, n - 1)
         IN  shorter \cup {Append(q, x) : q \in {r \in shorter : Len(r) = n - 1}, x \in S}

\* the numbers of candidates an ambiguous cell has in the inputs
CandidateCounts == {2, MaxCandidates - 1, MaxCandidates}

\* Inputs: n codewords, ecLevel ecl, the candidate counts cfg of the
\* ambiguous cells, e erasures, first = codewords[0].
ManyCombinations ==
    {[n |-> MaxAmbiguous + MaxLen, ecl |-> 0, cfg |-> c, e |-> e, first |-> 3] :
        c \in SeqsUpTo(CandidateCounts, MaxAmbiguous), e \in {1, MaxLen - 1}}

FewCombinations ==
    {[n |-> n, ecl |-> ecl, cfg |-> c, e |-> e, first |-> f] :
        n \in 0..MaxLen, ecl \in (0..MaxEC) \cup {CorruptEC},
        c \in SeqsUpTo({2}, 1), e \in 0..MaxLen, f \in {0, 3, 4, 928}}

ResolveInputs ==
    {i \in ManyCombinations \cup FewCombinations :
        IF i.n = 0 THEN Len(i.cfg) = 0 /\ i.e = 0 /\ i.first = 0
        ELSE 1 + Len(i.cfg) + i.e <= i.n}

\* Cell k (1-based) of an input has the distinct candidates 100k+1, 100k+2, ...
CandidateValues(cfg) == [k \in 1..Len(cfg) |-> [j \in 1..cfg[k] |-> 100 * k + j]]

InitResolve ==
    /\ pc = "resolve"
    /\ status = "none"
    /\ MetaIdle
    /\ CreateIdle
    /\ OtherIdle
    /\ detectionResult = NoDetectionResult
    /\ \E i \in ResolveInputs :
        /\ ecLevel = i.ecl
        /\ codewords = [j \in 1..i.n |->
                           IF j = 1 THEN i.first
                           ELSE IF j > i.n - i.e THEN 0 ELSE 5]
        /\ ambiguousIndexes = [k \in 1..Len(i.cfg) |-> k]
        /\ ambiguousIndexValues = CandidateValues(i.cfg)
        /\ erasures = [k \in 1..i.e |-> i.n - i.e + k - 1]
        /\ ambiguousIndexCount = [k \in 1..Len(i.cfg) |-> 0]
    /\ tries = Tries
    /\ attempts = <<>>
    /\ call = NoCall

NextResolve == Attempt

SpecResolve == InitResolve /\ [][NextResolve]_vars

(***************************************************************************)
(* Properties of the ambiguity loop.                                       *)
(***************************************************************************)
Radix(k) == Len(ambiguousIndexValues[k])

RECURSIVE ProductUpTo(_)
ProductUpTo(k) == IF k = 0 THEN 1 ELSE Radix(k) * ProductUpTo(k - 1)

\* the number of combinations of candidate choices
Combinations == ProductUpTo(Len(ambiguousIndexValues))

\* the digits of m as a mixed-radix number, position 0 least significant
Digits(m) ==
    [k \in 1..Len(ambiguousIndexValues) |-> (m \div ProductUpTo(k - 1)) % Radix(k)]

AllChecksum == \A k \in 1..Len(attempts) : attempts[k].status = ChecksumError

\* CreateDecoderResultFromAmbiguousValues was called
LoopEntered == pc = "resolve" \/ Len(attempts) > 0

\* C3: the first DecodeCodewords attempt whose status is not ChecksumError
\* ends the loop: its status is returned and no attempt follows it.
C3_FirstOtherStatusReturned ==
    \A k \in 1..Len(attempts) :
        attempts[k].status # ChecksumError =>
            /\ k = Len(attempts)
            /\ pc = "done"
            /\ status = attempts[k].status
            /\ status \in {NoError, FormatError, NotFound}

\* C3 witness: after two checksum failures the third attempt ended with
\* FormatError, which was returned although combinations were left.
C3_Witness ==
    /\ pc = "done"
    /\ Len(attempts) = 3
    /\ attempts[1].status = ChecksumError /\ attempts[2].status = ChecksumError
    /\ attempts[3].status = FormatError
    /\ status = FormatError
    /\ Combinations > 3

\* C4: with P <= 100 combinations and every attempt failing with
\* ChecksumError the loop makes exactly P attempts, attempt m (from 0) with
\* the combination whose mixed-radix digits are m, every combination once,
\* and returns ChecksumError; 4 attempts for two cells of two candidates, 1
\* attempt without ambiguous cells.  Each attempt hands the decoder the
\* candidates its combination selects.
C4_EveryCombinationOnce ==
    /\ (LoopEntered /\ Combinations <= 100 /\ AllChecksum) =>
        /\ Len(attempts) <= Combinations
        /\ pc = "resolve" => Len(attempts) < Combinations
        /\ \A m \in 1..Len(attempts) : attempts[m].combo = Digits(m - 1)
        /\ \A m, q \in 1..Len(attempts) : m # q => attempts[m].combo # attempts[q].combo
        /\ pc = "done" =>
            /\ Len(attempts) = Combinations
            /\ status = ChecksumError
            /\ {attempts[m].combo : m \in 1..Len(attempts)}
                 = {Digits(m) : m \in 0..(Combinations - 1)}
            /\ Len(ambiguousIndexValues) = 0 => Len(attempts) = 1
            /\ (Len(ambiguousIndexValues) = 2 /\ Radix(1) = 2 /\ Radix(2) = 2)
                  => Len(attempts) = 4
    /\ (call.made /\ call.handed # <<>>) =>
        \A k \in 1..Len(ambiguousIndexes) :
            call.handed[ambiguousIndexes[k] + 1]
              = ambiguousIndexValues[k][attempts[Len(attempts)].combo[k] + 1]

\* C4 witness: three ambiguous cells, every one of the more than 8
\* combinations tried and failed, ChecksumError returned.
C4_Witness ==
    /\ pc = "done"
    /\ AllChecksum
    /\ Len(ambiguousIndexValues) = 3
    /\ Combinations > 8 /\ Combinations <= 100
    /\ Len(attempts) = Combinations
    /\ status = ChecksumError

C5_Bounded ==
    LoopEntered =>
    /\ Len(attempts) <= 100
    /\ tries >= 0
    /\ tries + Len(attempts) = 100
    /\ \A k \in 1..Len(ambiguousIndexCount) :
          0 <= ambiguousIndexCount[k] /\ ambiguousIndexCount[k] < Radix(k)
    /\ \A m \in 1..Len(attempts), k \in 1..Len(ambiguousIndexValues) :
          0 <= attempts[m].combo[k] /\ attempts[m].combo[k] < Radix(k)
    /\ (pc = "done" /\ Combinations > 100 /\ AllChecksum) =>
          (Len(attempts) = 100 /\ status = ChecksumError)

\* C5: the loop terminates after at most 100 DecodeCodewords calls (until it
\* has returned another iteration can be taken, and each iteration uses up
\* one of the 100 tries); with more than 100 combinations all failing with
\* ChecksumError it returns ChecksumError after exactly 100; every counter
\* stays below the number of candidates of its cell.
C5_TerminatesWithin100 ==
    /\ C5_Bounded
    /\ pc = "resolve" => (tries > 0 /\ ENABLED Attempt)

\* C5 witness: more than 100 combinations, 100 attempts made, all failed,
\* ChecksumError returned.
C5_Witness ==
    /\ pc = "done"
    /\ Combinations > 100
    /\ AllChecksum
    /\ Len(attempts) = 100
    /\ status = ChecksumError

\* more erasures than numECCodewords / 2 + MAX_ERRORS
OverBudget == Len(erasures) > Pow2(ecLevel + 1) \div 2 + 3

\* C6 as stated: over the erasure budget exactly one DecodeCodewords attempt
\* is made, without the Reed-Solomon decoder, and ChecksumError returned,
\* whether or not ambiguous cells exist.
C6_SingleAttemptOverBudget ==
    (LoopEntered /\ OverBudget) =>
        /\ Len(attempts) <= 1
        /\ \A k \in 1..Len(attempts) : ~attempts[k].rsCalled
        /\ pc = "done" => (Len(attempts) = 1 /\ status = ChecksumError)

\* C6 amended: over the erasure budget no attempt invokes the Reed-Solomon
\* decoder, every attempt fails with ChecksumError and ChecksumError is
\* returned; one attempt is made when there is no ambiguous cell, and
\* otherwise the loop still retries: min(P, 100) attempts.
C6_OverBudgetNeverDecodes ==
    (LoopEntered /\ OverBudget) =>
        /\ \A k \in 1..Len(attempts) :
              ~attempts[k].rsCalled /\ attempts[k].status = ChecksumError
        /\ (call.made => ~call.rsCalled /\ ~call.verifyCalled /\ ~call.parserCalled)
        /\ pc = "done" =>
              /\ status = ChecksumError
              /\ Len(attempts) = Min(Combinations, 100)
              /\ Len(ambiguousIndexes) = 0 => Len(attempts) = 1

\* C6 witness: over budget with ambiguous cells: several attempts were made,
\* each rejected before the Reed-Solomon decoder.
C6_Witness ==
    /\ OverBudget
    /\ pc = "done"
    /\ Len(ambiguousIndexes) > 0
    /\ Len(attempts) = Combinations
    /\ Len(attempts) > 1
    /\ \A k \in 1..Len(attempts) : ~attempts[k].rsCalled
    /\ status = ChecksumError

\* C7: when NoError is returned the erasure count recorded in the result is
\* at most numECCodewords / 2 + 3 with numECCodewords = 1 << (ecLevel + 1),
\* and the Reed-Solomon decoder succeeded on that attempt.
C7_NoErrorWithinBudget ==
    (pc = "done" /\ status = NoError) =>
        /\ call.made /\ call.status = NoError
        /\ call.resultErasures = Len(erasures)
        /\ call.resultErasures <= Pow2(ecLevel + 1) \div 2 + 3
        /\ call.rsCalled /\ call.rsOk

\* C7 witness: NoError with the erasures exactly at the budget.
C7_Witness ==
    /\ pc = "done" /\ status = NoError
    /\ call.resultErasures = Pow2(ecLevel + 1) \div 2 + 3
    /\ call.rsOk

CreateMetadata == BarcodeMetadata

\* the bags over a set of values with multiplicities up to MaxMultiplicity
BarcodeValues(S) ==
    UNION {[T -> 1..MaxMultiplicity] : T \in SUBSET S}

\* what the Symbol Length Descriptor cell holds in the inputs
SLDValues == BarcodeValues({0, 2, 7})

\* what the data cell of codeword index 1 holds in the inputs: nothing,
\* one value, two values of the same multiplicity
CellValues == {EmptyBarcodeValue, SetValue(EmptyBarcodeValue, 7),
               SetValue(SetValue(EmptyBarcodeValue, 7), 8)}

\* A matrix as CreateBarcodeMatrix leaves it: rowCount rows of
\* columnCount + 2 cells; the indicator columns hold their row indicator,
\* the data cells past index 1 hold one value or nothing in turn.
Matrices(md) ==
    {[rc \in (0..(md.rowCount - 1)) \X (0..(md.columnCount + 1)) |->
        LET ix == rc[1] * md.columnCount + rc[2] - 1
        IN  IF rc[2] = 0 \/ rc[2] = md.columnCount + 1
            THEN SetValue(EmptyBarcodeValue, 9)
            ELSE IF ix = 0 THEN sld
            ELSE IF ix = 1 THEN second
            ELSE IF ix % 2 = 0 THEN SetValue(EmptyBarcodeValue, 5)
            ELSE EmptyBarcodeValue] :
     sld \in SLDValues, second \in CellValues}

InitCreate ==
    /\ pc = "create"
    /\ status = "none"
    /\ MetaIdle
    /\ ResolveIdle
    /\ OtherIdle
    /\ sldBefore = [entered |-> FALSE, value |-> <<>>]
    /\ \E md \in CreateMetadata :
        /\ detectionResult = [metadata |-> md, box |-> Box(0, ImageHeight - 1)]
        /\ barcodeMatrix \in Matrices(md)

NextCreate == CreateDecoderResult \/ Attempt

SpecCreate == InitCreate /\ [][NextCreate]_vars

(***************************************************************************)
(* Properties of AdjustCodewordCount.                                      *)
(***************************************************************************)
\* columnCount * rowCount - (2 << ecLevel)
Calculated ==
    detectionResult.metadata.columnCount * detectionResult.metadata.rowCount
      - 2 * Pow2(detectionResult.metadata.errorCorrectionLevel)

\* C9 as stated: when the Symbol Length Descriptor cell held an observed
\* value different from the calculated count, after AdjustCodewordCount the
\* cell's value() is the calculated count alone, and codewords[0] of the
\* first DecodeCodewords call is the calculated count.
C9_DescriptorOverwritten ==
    (sldBefore.entered /\ sldBefore.value # <<>> /\ sldBefore.value[1] # Calculated) =>
        /\ Value(barcodeMatrix[<<0, 1>>]) = <<Calculated>>
        /\ (Len(attempts) = 1 /\ call.handed # <<>>) => call.handed[1] = Calculated

\* C10 as stated: whenever the calculated count is outside
\* [1, MAX_CODEWORDS_IN_BARCODE], whatever the Symbol Length Descriptor cell
\* holds, AdjustCodewordCount rejects: Decode ends with NotFound and no
\* DecodeCodewords call is made.
C10_RejectsOutOfRange ==
    (sldBefore.entered /\ (Calculated < 1 \/ Calculated > 928)) =>
        /\ pc = "done"
        /\ status = NotFound
        /\ Len(attempts) = 0


\* the elements of a sequence
Range(q) == {q[k] : k \in 1..Len(q)}

\* CreateDecoderResult has just classified the cells
Classified == pc = "resolve" /\ sldBefore.entered /\ Len(attempts) = 0

\* C13: after the classification in CreateDecoderResult the codewords
\* vector has rowCount * columnCount elements, and every index
\* row * columnCount + column is in exactly one class according to the data
\* cell (row, column + 1): empty - an erasure, codeword 0; one value - that
\* value is the codeword; several values - in the ambiguous list with the
\* values at the same position.  No index is listed twice, and the
\* indicator columns 0 and columnCount + 1 contribute nothing.
C13_CellsClassified ==
    Classified =>
        LET md == detectionResult.metadata
            n == md.rowCount * md.columnCount
            cell(ix) == Value(barcodeMatrix[<<ix \div md.columnCount,
                                              (ix % md.columnCount) + 1>>])
        IN  /\ Len(codewords) = n
            /\ Len(ambiguousIndexes) = Len(ambiguousIndexValues)
            /\ Cardinality(Range(erasures)) = Len(erasures)
            /\ Cardinality(Range(ambiguousIndexes)) = Len(ambiguousIndexes)
            /\ Range(erasures) \cup Range(ambiguousIndexes) \subseteq 0..(n - 1)
            /\ Range(erasures) \cap Range(ambiguousIndexes) = {}
            /\ \A ix \in 0..(n - 1) :
                  /\ Len(cell(ix)) = 0 <=> ix \in Range(erasures)
                  /\ Len(cell(ix)) = 0 => codewords[ix + 1] = 0
                  /\ Len(cell(ix)) = 1 => codewords[ix + 1] = cell(ix)[1]
                  /\ Len(cell(ix)) > 1 <=> ix \in Range(ambiguousIndexes)
                  /\ \A k \in 1..Len(ambiguousIndexes) :
                        ambiguousIndexes[k] = ix => ambiguousIndexValues[k] = cell(ix)

\* C13 witness: two data columns, cells of all three classes, the
\* ambiguous one at index 1 and the indicator columns filled.
C13_Witness ==
    /\ Classified
    /\ detectionResult.metadata.columnCount = 2
    /\ Len(erasures) > 0
    /\ ambiguousIndexes = <<1>>
    /\ ambiguousIndexValues = <<(<<7, 8>>)>>
    /\ codewords[3] = 5
    /\ Value(barcodeMatrix[<<0, 0>>]) = <<9>>
    /\ Value(barcodeMatrix[<<0, 3>>]) = <<9>>

(***************************************************************************)
(* SpecDetect: one DetectCodeword call on a pixel row, as                  *)
(* GetRowIndicatorColumn makes it (scan bounds 0 and image.width()) and as *)
(* the column scan of Decode makes it (scan bounds boundingBox.minX() and  *)
(* boundingBox.maxX()), with a start column inside the image.              *)
(***************************************************************************)
\* the pixel rows of the inputs
PixelRows == [1..RowWidth -> BOOLEAN]

\* the scan bounds of the inputs: the whole row, and a box inside it
ScanBounds == {<<0, RowWidth>>, <<1, RowWidth - 1>>}

\* minCodewordWidth and maxCodewordWidth of the inputs
WidthRanges == {<<3, 5>>, <<8, 8>>, <<11, 12>>}

InitDetect ==
    /\ pc = "detect"
    /\ status = "none"
    /\ MetaIdle
    /\ CreateIdle
    /\ ResolveIdle
    /\ detectionResult = NoDetectionResult
    /\ \E row \in PixelRows : image = <<row>>
    /\ detect = NoDetect
    /\ ScanIdle
    /\ AdjustIdle
    /\ JniIdle

Detect ==
    /\ pc = "detect"
    /\ \E leftToRight \in BOOLEAN, bounds \in ScanBounds, widths \in WidthRanges,
          oob \in OutOfRangePixels, decodes \in BOOLEAN :
        \E startColumn \in 0..(IF bounds[1] = 0 THEN RowWidth - 1 ELSE bounds[2]) :
            detect' = DetectCodeword(image, oob, bounds[1], bounds[2], leftToRight,
                                     startColumn, 0, widths[1], widths[2], decodes)
    /\ pc' = "detected"
    /\ UNCHANGED <<status, image, detectionResult, metaVars, createVars, resolveVars,
                   scanVars, adjustVars, jniVars>>

NextDetect == Detect

SpecDetect == InitDetect /\ [][NextDetect]_vars

\* the walk of GetModuleBitCount stopped at the scan boundary
HitBoundary ==
    IF detect.leftToRight THEN detect.imageColumn >= detect.maxColumn
    ELSE detect.imageColumn < detect.minColumn

\* C14 as stated: the start column AdjustCodewordStartColumn returns is
\* never more than CODEWORD_SKEW_SIZE = 2 pixels away from the requested
\* one, for both scan directions.
C14_StartColumnWithinSkew ==
    detect.made => Abs(detect.adjusted - detect.startColumn) <= CODEWORD_SKEW_SIZE

\* C15 as stated: GetModuleBitCount terminates, and for either scan
\* direction reports success exactly when 8 modules were completed or the
\* walk hit the scan boundary with 7 modules completed and the 8th under
\* way; on success the counts sum to the number of pixels walked.
C15_ModuleCountSuccess ==
    detect.made =>
        /\ detect.steps <= RowWidth + 2 + BARS_IN_MODULE
        /\ detect.counted <=>
              \/ detect.moduleNumber = BARS_IN_MODULE
              \/ detect.moduleNumber = BARS_IN_MODULE - 1 /\ HitBoundary
        /\ detect.counted =>
              Accumulate(detect.moduleBitCount) = Abs(detect.imageColumn - detect.adjusted)

\* C16: a Codeword DetectCodeword returns has endX > startX, endX - startX
\* the total of its 8 module counts and within
\* [minCodewordWidth - 2, maxCodewordWidth + 2]; left to right its startX,
\* right to left its endX is the adjusted start column; a total outside the
\* interval yields no codeword.
C16_CodewordExtent ==
    detect.made =>
        LET cw == detect.codeword
            total == Accumulate(detect.moduleBitCount)
        IN  /\ ~cw.null =>
                  /\ cw.endX > cw.startX
                  /\ Len(detect.moduleBitCount) = BARS_IN_MODULE
                  /\ cw.endX - cw.startX = total
                  /\ detect.minCodewordWidth - 2 <= cw.endX - cw.startX
                  /\ cw.endX - cw.startX <= detect.maxCodewordWidth + 2
                  /\ detect.leftToRight => cw.startX = detect.adjusted
                  /\ ~detect.leftToRight => cw.endX = detect.adjusted
            /\ (total < detect.minCodewordWidth - 2 \/ total > detect.maxCodewordWidth + 2)
                  => cw.null

\* C16 witness: a right-to-left codeword two pixels narrower than
\* minCodewordWidth, found from a start column that was adjusted.
C16_Witness ==
    /\ detect.made /\ ~detect.leftToRight
    /\ ~detect.codeword.null
    /\ detect.codeword.endX - detect.codeword.startX = detect.minCodewordWidth - 2
    /\ detect.adjusted # detect.startColumn

\* C19 as stated: with a start column inside the image, every pixel
\* DetectCodeword reads has 0 <= x < image.width().
C19_ReadsInsideImage ==
    detect.made => detect.reads \subseteq 0..(Len(image[1]) - 1)

(***************************************************************************)
(* SpecScan: Decode from the loop over the columns (l.559) to the call of  *)
(* CreateDecoderResult, on an image with one data column.  One row         *)
(* indicator column holds codewords; the other corner is not given, or no  *)
(* codeword was found from it.  The metadata says one data column, so the  *)
(* loop scans column 1 and the column of an indicator that is not there.   *)
(***************************************************************************)
\* the widths of the first bar of the data codeword in the inputs
FirstBarWidths == {1, 3}

ScanWidth == 2 * BARS_IN_MODULE + 6

\* a row of pixels from run lengths, the colours alternating
RECURSIVE Runs(_, _)
Runs(lengths, colour) ==
    IF lengths = <<>> THEN <<>>
    ELSE [k \in 1..lengths[1] |-> colour] \o Runs(Tail(lengths), ~colour)

Ones(n) == [k \in 1..n |-> 1]

\* Left to right: a white pixel, the left indicator codeword in 8 runs of
\* one pixel, a data codeword whose first bar is a pixels wide, a bar.
NormalRowLeft(a) ==
    Runs(<<1>> \o Ones(8) \o <<a>> \o Ones(7) \o <<1, ScanWidth - a - 17>>, FALSE)

\* a left indicator codeword whose last space runs to the edge of the image
WideRowLeft == Runs(<<1>> \o Ones(7) \o <<ScanWidth - 8>>, FALSE)

BlankRow == [k \in 1..ScanWidth |-> FALSE]

\* Right to left: the data codeword, the right indicator codeword, a bar
\* and a white pixel at the right edge.
NormalRowRight(a) ==
    Runs(<<ScanWidth - a - 17, a>> \o Ones(7) \o Ones(8) \o <<1, 1>>, FALSE)

ScanRowsOf(dir) ==
    IF dir THEN {BlankRow, WideRowLeft} \cup {NormalRowLeft(a) : a \in FirstBarWidths}
    ELSE {BlankRow} \cup {NormalRowRight(a) : a \in FirstBarWidths}

\* minCodewordWidth and maxCodewordWidth as Decode is given them
ScanWidthRanges == {<<8, 8>>, <<9, ScanWidth - 3>>}

ScanBox == [null |-> FALSE, minX |-> 0, maxX |-> ScanWidth - 1,
            minY |-> 0, maxY |-> ScanRows - 1]

\* imageTopLeft, imageTopRight
StartPoint(dir) == IF dir THEN [x |-> 1, y |-> 0] ELSE [x |-> ScanWidth - 2, y |-> 0]

ScanMetadata == [columnCount |-> 1, errorCorrectionLevel |-> 0, rowCount |-> ScanRows]

InitScan ==
    /\ pc = "scan"
    /\ status = "none"
    /\ CreateIdle
    /\ ResolveIdle
    /\ ltr \in BOOLEAN
    /\ imageTopLeft \in BOOLEAN
    /\ imageTopRight \in BOOLEAN
    /\ IF ltr THEN imageTopLeft ELSE imageTopRight /\ ~imageTopLeft
    /\ passI = 0
    /\ boundingBox = ScanBox
    /\ leftRowIndicatorColumn = [present |-> imageTopLeft, yields |-> ltr,
                                 md |-> IF ltr THEN ScanMetadata ELSE NoMetadata]
    /\ rightRowIndicatorColumn = [present |-> imageTopRight, yields |-> ~ltr,
                                  md |-> IF ltr THEN NoMetadata ELSE ScanMetadata]
    /\ barcodeMetadata = [called |-> TRUE, ok |-> TRUE, md |-> ScanMetadata]
    /\ passes = <<[box |-> ScanBox, ok |-> TRUE, merged |-> ScanBox]>>
    /\ detectionResult = [metadata |-> ScanMetadata, box |-> ScanBox]
    /\ image \in [1..ScanRows -> ScanRowsOf(ltr)]
    /\ \E widths \in ScanWidthRanges, oob \in OutOfRangePixels :
        /\ minCW = widths[1]
        /\ maxCW = widths[2]
        /\ columns = [c \in 0..2 |->
                        IF c = (IF ltr THEN 0 ELSE 2)
                        THEN GetRowIndicatorColumn(image, oob, TRUE, ScanBox, StartPoint(ltr),
                                                   ltr, widths[1], widths[2])
                        ELSE IF c = 2 /\ imageTopRight THEN EmptyColumn(ScanBox)
                        ELSE NoColumn]
    /\ \E k \in 1..ScanRows : ~columns[IF ltr THEN 0 ELSE 2].codewords[k].null
    /\ barcodeColumnCount = 1
    /\ currentRow = 0
    /\ previousStartColumn = -1
    /\ rowStep = NoRowStep
    /\ detect = NoDetect
    /\ AdjustIdle
    /\ JniIdle

NextScan == BeginColumn \/ ScanRow \/ FinishScan

SpecScan == InitScan /\ [][NextScan]_vars

\* a row iteration that called DetectCodeword and got a codeword
Detected == rowStep.made /\ ~rowStep.skipped /\ ~detect.codeword.null

\* C11: during the column scan minCodewordWidth never increases and
\* maxCodewordWidth never decreases; they change only on a successful
\* detection, to the min and the max with the width of the detected
\* codeword, so by at most 2 each per detection.
C11_WidthDrift ==
    [][/\ minCW' <= minCW /\ minCW - minCW' <= 2
       /\ maxCW' >= maxCW /\ maxCW' - maxCW <= 2
       /\ (minCW' # minCW \/ maxCW' # maxCW) => pc = "row" /\ Detected'
       /\ (pc = "row" /\ Detected') =>
             LET width == detect'.codeword.endX - detect'.codeword.startX
             IN  /\ minCW' = Min(minCW, width)
                 /\ maxCW' = Max(maxCW, width)]_vars

\* C11 witness: a detection two pixels wider than maxCodewordWidth raised
\* it by 2 after an earlier one had lowered minCodewordWidth.
C11_Witness ==
    /\ Detected
    /\ maxCW = rowStep.maxCodewordWidth + 2
    /\ maxCW = detect.codeword.endX - detect.codeword.startX
    /\ minCW < maxCW

\* C17: in a column scan a row is skipped exactly when GetStartColumn's
\* result is out of bounds and no earlier row of the scan had a successful
\* detection; otherwise DetectCodeword is called with GetStartColumn's
\* result when in bounds, else with previousStartColumn; the start column
\* passed is within [0, boundingBox.maxX]; previousStartColumn is -1 or the
\* start column of the latest successful detection; a failed detection
\* changes neither previousStartColumn nor the stored codewords.
C17_StartColumnFallback ==
    /\ previousStartColumn = -1 \/ previousStartColumn \in 0..boundingBox.maxX
    /\ rowStep.made =>
        LET out == rowStep.startColumn < 0 \/ rowStep.startColumn > boundingBox.maxX
            before == rowStep.codewords
            now == columns[rowStep.barcodeColumn].codewords
        IN  /\ rowStep.skipped <=> out /\ \A k \in 1..Len(before) : before[k].null
            /\ rowStep.skipped <=> ~detect.made
            /\ detect.made =>
                  /\ detect.imageRow = rowStep.imageRow
                  /\ detect.startColumn =
                        IF out THEN rowStep.previousStartColumn ELSE rowStep.startColumn
                  /\ detect.startColumn \in 0..boundingBox.maxX
            /\ Detected =>
                  /\ previousStartColumn = detect.startColumn
                  /\ now = [before EXCEPT ![rowStep.imageRow - boundingBox.minY + 1] =
                               detect.codeword]
            /\ ~Detected =>
                  /\ previousStartColumn = rowStep.previousStartColumn
                  /\ now = before
            /\ previousStartColumn = -1 <=> \A k \in 1..Len(now) : now[k].null

\* C17 witness: GetStartColumn's result is past boundingBox.maxX on a row
\* that follows a successful detection, and DetectCodeword was called with
\* previousStartColumn.
C17_Witness ==
    /\ rowStep.made /\ ~rowStep.skipped
    /\ rowStep.startColumn > boundingBox.maxX
    /\ rowStep.previousStartColumn >= 0
    /\ detect.made
    /\ detect.startColumn = rowStep.previousStartColumn

(***************************************************************************)
(* SpecAdjust: one AdjustBoundingBox call on a row indicator column, as    *)
(* Merge makes it for either side.                                         *)
(***************************************************************************)
\* the cells of the inputs: nullptr or a codeword of a barcode row
IndicatorCells(rowCount) ==
    {[null |-> TRUE, rowNumber |-> 0]}
    \cup {[null |-> FALSE, rowNumber |-> r] : r \in 0..(rowCount - 1)}

InitAdjust ==
    /\ pc = "adjust"
    /\ status = "none"
    /\ MetaIdle
    /\ CreateIdle
    /\ ResolveIdle
    /\ PixelIdle
    /\ ScanIdle
    /\ detectionResult = NoDetectionResult
    /\ \/ indicator = NoIndicator
       \/ \E rowCount \in (MaxRows - 1)..MaxRows :
            \E cells \in [1..ImageHeight -> IndicatorCells(rowCount)] :
                indicator = [null |-> FALSE, rowCount |-> rowCount, codewords |-> cells]
    /\ adjusted = NoAdjust
    /\ JniIdle

NextAdjust == AdjustBox

SpecAdjust == InitAdjust /\ [][NextAdjust]_vars

\* the number of nullptr cells at the start of a sequence of cells
RECURSIVE LeadingEmpty(_)
LeadingEmpty(cells) ==
    IF cells = <<>> \/ ~cells[1].null THEN 0 ELSE 1 + LeadingEmpty(Tail(cells))

\* the sum of maxRowHeight - rowHeights[i] from the first row up to and
\* including the first row with rowHeights[i] > 0
SumToFirstRow(heights) ==
    LET filled == {i \in 1..Len(heights) : heights[i] > 0}
        last == IF filled = {} THEN Len(heights)
                ELSE CHOOSE i \in filled : \A j \in filled : i <= j
    IN  Accumulate([i \in 1..last |-> GetMax(heights) - heights[i]])

\* C18 as stated: the missingStartRows handed to AddMissingRows is not
\* negative and not more than the number of empty cells at the top of the
\* column, and missingEndRows likewise at the bottom.
C18_MissingRowsWithinEmptyCells ==
    adjusted.addCalled =>
        /\ 0 <= adjusted.missingStartRows
        /\ adjusted.missingStartRows <= LeadingEmpty(indicator.codewords)
        /\ 0 <= adjusted.missingEndRows
        /\ adjusted.missingEndRows <= LeadingEmpty(Reverse(indicator.codewords))

\* C18 amended: the missingStartRows handed to AddMissingRows is the sum of
\* maxRowHeight - rowHeights[i] from the top up to and including the first
\* row with rowHeights[i] > 0, less one per empty cell at the top of the
\* column, and 0 when there are at least as many such cells as the sum; it
\* is never negative; missingEndRows likewise from the bottom; no cell
\* outside the column is read.
C18_MissingRowsLessEmptyCells ==
    adjusted.addCalled =>
        LET cells == indicator.codewords
        IN  /\ adjusted.missingStartRows =
                  Max(0, SumToFirstRow(adjusted.rowHeights) - LeadingEmpty(cells))
            /\ adjusted.missingEndRows =
                  Max(0, SumToFirstRow(Reverse(adjusted.rowHeights))
                           - LeadingEmpty(Reverse(cells)))
            /\ adjusted.missingStartRows >= 0 /\ adjusted.missingEndRows >= 0
            /\ ~adjusted.outside
            /\ adjusted.reads \subseteq 0..(Len(cells) - 1)

\* C18 witness: a column with an empty cell at the top whose first barcode
\* row is missing: the sum is reduced by the empty cell and what is handed
\* to AddMissingRows is still more than the one empty cell at the top.
C18_Witness ==
    /\ adjusted.addCalled
    /\ LeadingEmpty(indicator.codewords) = 1
    /\ adjusted.rowHeights[1] = 0
    /\ adjusted.missingStartRows =
          SumToFirstRow(adjusted.rowHeights) - 1
    /\ adjusted.missingStartRows > 1

(***************************************************************************)
(* SpecJni: one call of readYBuffer or readBitmap.                         *)
(***************************************************************************)
\* the results ReadBarcodes returns, by what matters to CreateResult
JniResults ==
    [format : BOOLEAN, contentType : BOOLEAN, error : {"none", "known", "unknown"}]

Requests ==
    [entry : {"readYBuffer", "readBitmap"},
     format : {"A_8", "RGBA_8888", "RGB_565"},
     lockOk : BOOLEAN,
     binarizer : {"LOCAL_AVERAGE", "OTSU"},
     textMode : {"PLAIN", "UTF8"},
     eanAddOnSymbol : {"IGNORE", "AUTO"},
     readThrows : {"none", "std::bad_alloc", "not a std::exception"},
     results : UNION {[1..n -> JniResults] : n \in 0..MaxResults}]

InitJni ==
    /\ pc = "jni"
    /\ status = "none"
    /\ MetaIdle
    /\ CreateIdle
    /\ ResolveIdle
    /\ PixelIdle
    /\ ScanIdle
    /\ AdjustIdle
    /\ detectionResult = NoDetectionResult
    /\ request \in Requests
    /\ locked = 0
    /\ unlocked = 0
    /\ pending = "none"
    /\ thrown = "none"
    /\ escaped = FALSE

NextJni == ReadYBuffer \/ ReadBitmap \/ CreateDecodeHints \/ Read \/ Return \/ Escape

SpecJni == InitJni /\ [][NextJni]_vars

\* C20 as stated: no C++ exception leaves readYBuffer or readBitmap, a call
\* that raised one returns with a RuntimeException pending, and once the
\* call is over the pixels were unlocked exactly once after a successful
\* lock and never after a failed one.
C20_NoExceptionEscapes ==
    /\ ~escaped
    /\ pc = "returned" => /\ thrown = "none"
                          /\ unlocked = locked
                          /\ locked <= 1
                          /\ locked = 1 <=> (request.entry = "readBitmap"
                                             /\ request.format \in {"A_8", "RGBA_8888"}
                                             /\ request.lockOk)
====
